---- MODULE Spec2Model ----
(***************************************************************************)
(* Recurrent MAPPO (Anakin) learner of mava/systems/ppo/anakin/rec_mappo.py *)
(* as a state machine: run_experiment's configuration checks and host loop, *)
(* learner_setup, and the three nested scans of _update_step (rollout,      *)
(* epochs, minibatches) executed in lockstep by every replica               *)
(* (device x update-batch slot).                                            *)
(*                                                                          *)
(* Arrays are sequences of sequences, 1-indexed; reshape/take/swapaxes are  *)
(* computed through their row-major index arithmetic.  The agent axis is    *)
(* carried elementwise by every operation of the learner and is left out.   *)
(* Networks, environment, optimiser and calculate_gae live outside the      *)
(* modelled file; they are small deterministic stand-ins with the           *)
(* interface the learner uses.                                              *)
(***************************************************************************)
EXTENDS Integers, Sequences, FiniteSets, TLC

-----------------------------------------------------------------------------
(* Bounds of the explored configurations. *)
MaxRolloutLength == 4
MaxNumEnvs == 2
MaxNumMinibatches == 2
MaxSeed == 0
NumDevices == 2
UpdateBatchSize == 2
PpoEpochs == 2
NumUpdatesPerEval == 1
NumEvaluation == 2
MaxFullPerm == 3

(* Value ranges of the stand-ins for environment, networks and optimiser. *)
EpisodeLen == 3
NumActions == 2
HiddenMod == 3
ValueMod == 3
ParamMod == 2
GradMod == 3
KeyMod == 7

None == 0

Devices == 1..NumDevices
BatchSlots == 1..UpdateBatchSize
Replicas == Devices \X BatchSlots

-----------------------------------------------------------------------------
(* Sequence helpers. *)
RECURSIVE SumSeq(_)
SumSeq(s) == IF s = <<>> THEN 0 ELSE s[1] + SumSeq(Tail(s))

(* The function f, tabulated once over its domain. *)
RECURSIVE StrictOn(_, _)
StrictOn(f, S) ==
    IF S = {} THEN <<>>
    ELSE LET x == CHOOSE y \in S : TRUE
         IN (x :> f[x]) @@ StrictOn(f, S \ {x})
Strict(f) == StrictOn(f, DOMAIN f)

(* Exact rationals <<numerator, denominator>>.  The mean of k rationals    *)
(* over one common denominator d is the sum of the numerators over k * d.  *)
RatMean(s) == <<SumSeq([i \in 1..Len(s) |-> s[i][1]]), s[1][2] * Len(s)>>
RatEq(p, q) == p[1] * q[2] = q[1] * p[2]

-----------------------------------------------------------------------------
(* PRNG keys are paths in the tree of splits: jax.random.split(key, n)     *)
(* yields the n children of key.                                           *)
PRNGKey(seed) == <<seed>>
split(key, n) == [i \in 1..n |-> Append(key, i)]

(* Record of the keys a replica has handed to jax.random.split and of the  *)
(* keys it has handed to a sampling operation, in program order.           *)
KeyUse(use, key) == [use |-> use, key |-> key]
KeyLog(splits, consumed) == [split |-> splits, consumed |-> consumed]

RECURSIVE KeyBits(_)
KeyBits(key) ==
    IF key = <<>> THEN 0
    ELSE (KeyBits(SubSeq(key, 1, Len(key) - 1)) * 3 + key[Len(key)] + 1) % KeyMod

-----------------------------------------------------------------------------
(* Array operations of jax.numpy on 2-d arrays (sequences of rows). *)
FlatAt(x, i) == x[((i - 1) \div Len(x[1])) + 1][((i - 1) % Len(x[1])) + 1]

(* x.reshape(d0, d1): row-major refill. *)
reshape(x, d0, d1) ==
    [i \in 1..d0 |-> [j \in 1..d1 |-> FlatAt(x, (i - 1) * d1 + j)]]

(* Variant of take: indices one too far, clipped to the axis. *)
take_clipped(x, permutation) ==
    [i \in 1..Len(x) |->
        [j \in 1..Len(permutation) |->
            x[i][IF permutation[j] + 1 > Len(x[i]) THEN Len(x[i]) ELSE permutation[j] + 1]]]

(* jnp.take(x, permutation, axis=1); permutation is 1-based here. *)
take(x, permutation) ==
    [i \in 1..Len(x) |-> [j \in 1..Len(permutation) |-> x[i][permutation[j]]]]

(* jnp.reshape(x, (x.shape[0], d1, -1)). *)
reshape3(x, d1) ==
    LET d2 == Len(x[1]) \div d1
    IN [i \in 1..Len(x) |-> [m \in 1..d1 |-> [b \in 1..d2 |-> x[i][(m - 1) * d2 + b]]]]

(* jnp.swapaxes(x, 1, 0) on a 3-d array. *)
swapaxes(x) ==
    [m \in 1..Len(x[1]) |-> [i \in 1..Len(x) |-> x[i][m]]]

-----------------------------------------------------------------------------
(* Stand-in environment: the state counts steps of the episode, an episode *)
(* ends (and auto-resets) once the count reaches EpisodeLen.               *)
env_reset(key) ==
    LET s == KeyBits(key) % EpisodeLen
    IN [state |-> s, timestep |-> [observation |-> s, reward |-> 0, last |-> FALSE]]

env_step(state, action) ==
    LET s2 == state + 1 + action
        last == s2 >= EpisodeLen
        ns == IF last THEN 0 ELSE s2
    IN [state |-> ns,
        timestep |-> [observation |-> ns, reward |-> action + 1, last |-> last]]

(* Stand-in recurrent networks.  ScannedRNN scans its cell over the        *)
(* leading (time) axis and restarts from the initial carry where done is   *)
(* set; it returns the hidden state after every position.                  *)
initialize_carry == 0

rnn_cell(params, h, obs, done) ==
    ((IF done THEN initialize_carry ELSE h) * 2 + obs + params + 1) % HiddenMod

RECURSIVE ScannedRNN(_, _, _, _)
ScannedRNN(params, h, obs, done) ==
    IF obs = <<>> THEN <<>>
    ELSE LET h1 == rnn_cell(params, h, obs[1], done[1])
         IN <<h1>> \o ScannedRNN(params, h1, Tail(obs), Tail(done))

(* apply(params, hidden_state, (observation, done)) over one environment   *)
(* column: the new hidden state and one output per position.               *)
actor_apply_fn(actor_params, hstate, obs, done) ==
    LET hs == ScannedRNN(actor_params, hstate, obs, done)
    IN [hidden_state |-> hs[Len(hs)],
        policy |-> [i \in 1..Len(hs) |-> (hs[i] + actor_params) % NumActions]]

critic_apply_fn(critic_params, hstate, obs, done) ==
    LET hs == ScannedRNN(critic_params + 1, hstate, obs, done)
    IN [hidden_state |-> hs[Len(hs)],
        value |-> [i \in 1..Len(hs) |-> (hs[i] + critic_params) % ValueMod]]

sample(logit, seed, e) == (logit + KeyBits(seed) + e) % NumActions
log_prob(logit, action) == IF logit = action THEN 0 ELSE -1
entropy(logit, seed) == (logit + KeyBits(seed)) % 2

(* Stand-in optimiser: update(grads, opt_state) -> (updates, new state);   *)
(* optax.apply_updates adds the updates to the params.                     *)
GradInt(g) == g[1] \div g[2]
update_fn(grads, opt_state) ==
    [updates |-> GradInt(grads) + opt_state,
     opt_state |-> opt_state + 1]
apply_updates(params, updates) == (params + updates) % ParamMod

-----------------------------------------------------------------------------
(* Configurations handed to run_experiment.  The discounts are exact       *)
(* integer coefficients so that products of gamma and gae_lambda stay      *)
(* exact and distinguishable.                                              *)
Gamma == 2
GaeLambda == 3

Configs ==
    [rollout_length : 1..MaxRolloutLength,
     recurrent_chunk_size : {None} \cup (1..MaxRolloutLength),
     num_envs : 1..MaxNumEnvs,
     num_minibatches : 1..MaxNumMinibatches,
     seed : 0..MaxSeed]

VARIABLES
    user_config,    \* _config as given to run_experiment
    config,         \* the deep copy run_experiment works on
    pc,             \* position of the host program
    envs_made,      \* environments.make has run
    learner_state,  \* run_experiment's learner_state (replica -> RNNLearnerState)
    learner_output, \* result of the last learn call
    eval_step,      \* index of the host loop
    evaluated,      \* actor params handed to the evaluator, per iteration
    checkpointed,   \* params saved by the checkpointer, per iteration
    carry,          \* learner state threaded through the scans inside learn
    updates_done,   \* update steps completed by the current learn call
    traj_batch,     \* replica -> rollout_length rows of num_envs transitions
    rollout_log,    \* replica -> per step, what was current before and after it
    last_val,       \* replica -> bootstrap value per environment
    advantages, targets,
    update_state,   \* replica -> (params, opt_states, key) carried over epochs
    epochs_done,
    minibatches,    \* replica -> [traj, advantages, targets], minibatch-major
    train_state,    \* replica -> (params, opt_states, key) carried over minibatches
    mb_index,       \* minibatches processed in the current epoch
    permutation,    \* replica -> permutation drawn in the current epoch
    loss_in,        \* replica -> inputs of the last loss evaluation
    key_log         \* replica -> the keys split and the keys consumed so far

vars == <<user_config, config, pc, envs_made, learner_state, learner_output,
          eval_step, evaluated, checkpointed, carry, updates_done, traj_batch,
          rollout_log, last_val, advantages, targets, update_state, epochs_done,
          minibatches, train_state, mb_index, permutation, loss_in, key_log>>

host_vars == <<learner_state, learner_output, eval_step, evaluated, checkpointed>>
step_vars == <<traj_batch, rollout_log, last_val, advantages, targets>>
epoch_vars == <<update_state, epochs_done, minibatches, train_state, mb_index,
                permutation, loss_in>>

Unset == <<>>

Init ==
    /\ user_config \in Configs
    /\ config = user_config
    /\ pc = "run_experiment"
    /\ envs_made = FALSE
    /\ learner_state = Unset
    /\ learner_output = Unset
    /\ eval_step = 0
    /\ evaluated = <<>>
    /\ checkpointed = <<>>
    /\ carry = Unset
    /\ updates_done = 0
    /\ traj_batch = Unset
    /\ rollout_log = Unset
    /\ last_val = Unset
    /\ advantages = Unset
    /\ targets = Unset
    /\ update_state = Unset
    /\ epochs_done = 0
    /\ minibatches = Unset
    /\ train_state = Unset
    /\ mb_index = 0
    /\ permutation = Unset
    /\ loss_in = Unset
    /\ key_log = Unset

-----------------------------------------------------------------------------
(* Variant of the checks: operands of the first modulo exchanged. *)
ChunkSizeChecks_swapped(cfg) ==
    IF cfg.recurrent_chunk_size = None
    THEN "ok"
    ELSE IF cfg.recurrent_chunk_size % cfg.rollout_length # 0
         THEN "Rollout length must be divisible by recurrent chunk size."
         ELSE IF cfg.num_envs % cfg.num_minibatches # 0
              THEN "Number of envs must be divisibile by number of minibatches."
              ELSE "ok"

(* run_experiment, rec_mappo.py 545-555: default and checks of the chunk   *)
(* size.  Both assertions sit in the else branch of the None test.         *)
ChunkSizeChecks(cfg) ==
    IF cfg.recurrent_chunk_size = None
    THEN "ok"
    ELSE IF cfg.rollout_length % cfg.recurrent_chunk_size # 0
         THEN "Rollout length must be divisible by recurrent chunk size."
         ELSE IF cfg.num_envs % cfg.num_minibatches # 0
              THEN "Number of envs must be divisibile by number of minibatches."
              ELSE "ok"

SetChunkSize(cfg) ==
    IF cfg.recurrent_chunk_size = None
    THEN [cfg EXCEPT !.recurrent_chunk_size = cfg.rollout_length]
    ELSE cfg

CheckConfig ==
    /\ pc = "run_experiment"
    /\ IF ChunkSizeChecks(config) = "ok"
       THEN /\ config' = SetChunkSize(config)
            /\ pc' = "make_env"
       ELSE /\ pc' = "AssertionError"
            /\ UNCHANGED config
    /\ UNCHANGED <<user_config, envs_made, host_vars, carry, updates_done,
                   step_vars, epoch_vars, key_log>>

(* rec_mappo.py 558: environments.make. *)
MakeEnv ==
    /\ pc = "make_env"
    /\ envs_made' = TRUE
    /\ pc' = "learner_setup"
    /\ UNCHANGED <<user_config, config, host_vars, carry, updates_done,
                   step_vars, epoch_vars, key_log>>

-----------------------------------------------------------------------------
(* learner_setup, rec_mappo.py 397-535 (no checkpoint is loaded).          *)
Params(actor_params, critic_params) ==
    [actor_params |-> actor_params, critic_params |-> critic_params]
OptStates(actor_opt_state, critic_opt_state) ==
    [actor_opt_state |-> actor_opt_state, critic_opt_state |-> critic_opt_state]
HiddenStates(policy_hidden_state, critic_hidden_state) ==
    [policy_hidden_state |-> policy_hidden_state,
     critic_hidden_state |-> critic_hidden_state]
RNNLearnerState(params, opt_states, key, env_state, timestep, dones, hstates) ==
    [params |-> params, opt_states |-> opt_states, key |-> key,
     env_state |-> env_state, timestep |-> timestep, dones |-> dones,
     hstates |-> hstates]

(* 508-522: what is replicated is one value, broadcast to every            *)
(* update-batch slot and every device.                                     *)
replicate(x, r) == x

learner_setup(keys, cfg) ==
    LET key == keys[1]
        actor_net_key == keys[2]
        critic_net_key == keys[3]
        N == cfg.num_envs
        init_hstate == [e \in 1..N |-> initialize_carry]
        actor_params == KeyBits(actor_net_key) % ParamMod
        critic_params == KeyBits(critic_net_key) % ParamMod
        params == Params(actor_params, critic_params)
        opt_states == OptStates(0, 0)
        hstates == HiddenStates(init_hstate, init_hstate)
        n == NumDevices * UpdateBatchSize * N
        ks == split(key, n + 1)
        reset(d, b, e) == env_reset(ks[((d - 1) * UpdateBatchSize + (b - 1)) * N + e + 1])
        step_keys == split(ks[1], 2)[2]
        dones == [e \in 1..N |-> FALSE]
    IN [r \in Replicas |->
           RNNLearnerState(
               replicate(params, r), replicate(opt_states, r), replicate(step_keys, r),
               [e \in 1..N |-> reset(r[1], r[2], e).state],
               [e \in 1..N |-> reset(r[1], r[2], e).timestep],
               replicate(dones, r), replicate(hstates, r))]

(* rec_mappo.py 560-568. *)
LearnerSetup ==
    /\ pc = "learner_setup"
    /\ LET ks == split(PRNGKey(config.seed), 4)
       IN learner_state' = learner_setup(<<ks[1], ks[3], ks[4]>>, config)
    /\ key_log' = [r \in Replicas |-> KeyLog(<<>>, <<>>)]
    /\ pc' = "learn"
    /\ UNCHANGED <<user_config, config, envs_made, learner_output, eval_step,
                   evaluated, checkpointed, carry, updates_done, step_vars, epoch_vars>>

(* Shapes of the shuffle in _update_epoch (300-320), fixed when learn is   *)
(* traced: the reshape to (chunk, num_minibatches, -1) needs the chunk     *)
(* count to be a multiple of num_minibatches.                              *)
num_recurrent_chunks(cfg) == cfg.rollout_length \div cfg.recurrent_chunk_size
NumChunkColumns(cfg) == cfg.num_envs * num_recurrent_chunks(cfg)
ShapesOk(cfg) ==
    /\ cfg.recurrent_chunk_size * NumChunkColumns(cfg) = cfg.rollout_length * cfg.num_envs
    /\ NumChunkColumns(cfg) % cfg.num_minibatches = 0

(* rec_mappo.py 616, 383-387: learn(learner_state). *)
Learn ==
    /\ pc = "learn"
    /\ IF ShapesOk(config)
       THEN /\ carry' = learner_state
            /\ updates_done' = 0
            /\ traj_batch' = [r \in Replicas |-> <<>>]
            /\ rollout_log' = [r \in Replicas |-> <<>>]
            /\ pc' = "env_step"
       ELSE /\ pc' = "TypeError"
            /\ UNCHANGED <<carry, updates_done, traj_batch, rollout_log>>
    /\ UNCHANGED <<user_config, config, envs_made, host_vars, last_val,
                   advantages, targets, epoch_vars, key_log>>

-----------------------------------------------------------------------------
(* _env_step, rec_mappo.py 92-144, on one replica; t is the 1-based index  *)
(* of the step in the rollout.                                             *)
RNNPPOTransition(done, action, value, reward, logp, obs, hstates, idx) ==
    [done |-> done, action |-> action, value |-> value, reward |-> reward,
     log_prob |-> logp, obs |-> obs, hstates |-> hstates,
     idx |-> idx]   \* (time step, environment) tag; not a field of the source

(* Variant of TransitionCarry: the values produced by the step. *)
TransitionCarry_new(last, new) == new

(* 131-139: the transition takes the values current before the step. *)
TransitionCarry(last, new) == last
(* 140-142: the learner state takes the values produced by the step. *)
NextCarry(last, new) == new

Snapshot(hstates, dones, timestep) ==
    [hstates |-> hstates, dones |-> dones,
     obs |-> [e \in 1..Len(timestep) |-> timestep[e].observation]]

_env_step(ls, t) ==
    LET N == Len(ls.env_state)
        ks == split(ls.key, 2)
        key == ks[1]
        policy_key == ks[2]
        acts == Strict([e \in 1..N |->
                    actor_apply_fn(ls.params.actor_params,
                                   ls.hstates.policy_hidden_state[e],
                                   <<ls.timestep[e].observation>>, <<ls.dones[e]>>)])
        cris == Strict([e \in 1..N |->
                    critic_apply_fn(ls.params.critic_params,
                                    ls.hstates.critic_hidden_state[e],
                                    <<ls.timestep[e].observation>>, <<ls.dones[e]>>)])
        act(e) == acts[e]
        cri(e) == cris[e]
        action(e) == sample(act(e).policy[1], policy_key, e)
        steps == Strict([e \in 1..N |-> env_step(ls.env_state[e], action(e))])
        stepped(e) == steps[e]
        done == [e \in 1..N |-> stepped(e).timestep.last]
        hstates == HiddenStates([e \in 1..N |-> act(e).hidden_state],
                                [e \in 1..N |-> cri(e).hidden_state])
        timestep == [e \in 1..N |-> stepped(e).timestep]
        transition ==
            [e \in 1..N |->
                RNNPPOTransition(
                    TransitionCarry(ls.dones, done)[e],
                    action(e),
                    cri(e).value[1],
                    timestep[e].reward,
                    log_prob(act(e).policy[1], action(e)),
                    TransitionCarry(ls.timestep, timestep)[e].observation,
                    HiddenStates(
                        TransitionCarry(ls.hstates, hstates).policy_hidden_state[e],
                        TransitionCarry(ls.hstates, hstates).critic_hidden_state[e]),
                    <<t, e>>)]
    IN [learner_state |->
            RNNLearnerState(ls.params, ls.opt_states, key,
                            [e \in 1..N |-> stepped(e).state],
                            NextCarry(ls.timestep, timestep),
                            NextCarry(ls.dones, done),
                            NextCarry(ls.hstates, hstates)),
        transition |-> transition,
        before |-> Snapshot(ls.hstates, ls.dones, ls.timestep),
        after |-> Snapshot(hstates, done, timestep),
        split_key |-> ls.key,
        policy_key |-> policy_key]

(* One iteration of the rollout scan (147-149) on every replica. *)
EnvStep ==
    /\ pc = "env_step"
    /\ LET t == Len(traj_batch[<<1, 1>>]) + 1
           out == Strict([r \in Replicas |-> _env_step(carry[r], t)])
       IN /\ t <= config.rollout_length
          /\ carry' = [r \in Replicas |-> out[r].learner_state]
          /\ traj_batch' = [r \in Replicas |-> Append(traj_batch[r], out[r].transition)]
          /\ rollout_log' =
                 [r \in Replicas |->
                     Append(rollout_log[r],
                            [before |-> out[r].before, after |-> out[r].after])]
          /\ key_log' =
                 [r \in Replicas |->
                     KeyLog(Append(key_log[r].split, out[r].split_key),
                            Append(key_log[r].consumed,
                                   KeyUse("sample", out[r].policy_key)))]
          /\ pc' = IF t = config.rollout_length THEN "calculate_gae" ELSE "env_step"
    /\ UNCHANGED <<user_config, config, envs_made, host_vars, updates_done,
                   last_val, advantages, targets, epoch_vars>>

-----------------------------------------------------------------------------
(* calculate_gae of mava/utils/multistep.py, after section 4.2 of the      *)
(* specification: a reverse scan over the window whose carry holds the     *)
(* running advantage and the value and done flag that follow the step.     *)
B2I(b) == IF b THEN 1 ELSE 0

_get_advantages(c, transition, gamma, gae_lambda) ==
    LET delta == transition.reward + gamma * c.next_value * (1 - B2I(c.next_done))
                 - transition.value
        gae == delta + gamma * gae_lambda * (1 - B2I(c.next_done)) * c.gae
    IN [gae |-> gae, next_value |-> transition.value, next_done |-> transition.done]

RECURSIVE reverse_scan(_, _, _, _, _)
reverse_scan(col, t, c, gamma, gae_lambda) ==
    IF t = 0 THEN <<>>
    ELSE LET c2 == _get_advantages(c, col[t], gamma, gae_lambda)
         IN Append(reverse_scan(col, t - 1, c2, gamma, gae_lambda), c2.gae)

calculate_gae(traj, lastval, last_done, gamma, gae_lambda) ==
    LET H == Len(traj)
        N == Len(lastval)
        col(e) == [t \in 1..H |-> traj[t][e]]
        advs == Strict([e \in 1..N |->
                    reverse_scan(col(e), H,
                                 [gae |-> 0, next_value |-> lastval[e],
                                  next_done |-> last_done[e]],
                                 gamma, gae_lambda)])
        adv(e) == advs[e]
    IN [advantages |-> [t \in 1..H |-> [e \in 1..N |-> adv(e)[t]]],
        targets |-> [t \in 1..H |-> [e \in 1..N |-> adv(e)[t] + traj[t][e].value]]]

(* Variant of BootstrapValue: the critic starts from the initial carry. *)
BootstrapValue_initial(ls) ==
    [e \in 1..Len(ls.env_state) |->
        critic_apply_fn(ls.params.critic_params, initialize_carry,
                        <<ls.timestep[e].observation>>, <<ls.dones[e]>>).value[1]]

(* _update_step, rec_mappo.py 151-162: the bootstrap value, one critic     *)
(* call on the learner state that leaves the rollout.                      *)
BootstrapValue(ls) ==
    [e \in 1..Len(ls.env_state) |->
        critic_apply_fn(ls.params.critic_params, ls.hstates.critic_hidden_state[e],
                        <<ls.timestep[e].observation>>, <<ls.dones[e]>>).value[1]]

(* Variant of FinalDone: no final done flag is passed on. *)
FinalDone_none(ls) == [e \in 1..Len(ls.dones) |-> FALSE]

(* 164-166: the final done flags handed to calculate_gae. *)
FinalDone(ls) == ls.dones

(* Variant of advantage_estimates: discount and decay exchanged. *)
advantage_estimates_swapped(traj, lastval, ls) ==
    calculate_gae(traj, lastval, FinalDone(ls), GaeLambda, Gamma)

(* 164-166: the call of calculate_gae. *)
advantage_estimates(traj, lastval, ls) ==
    calculate_gae(traj, lastval, FinalDone(ls), Gamma, GaeLambda)

CalculateGAE ==
    /\ pc = "calculate_gae"
    /\ last_val' = [r \in Replicas |-> BootstrapValue(carry[r])]
    /\ LET out == Strict([r \in Replicas |->
                      advantage_estimates(traj_batch[r], BootstrapValue(carry[r]),
                                          carry[r])])
       IN /\ advantages' = [r \in Replicas |-> out[r].advantages]
          /\ targets' = [r \in Replicas |-> out[r].targets]
    /\ update_state' =
           [r \in Replicas |->
               [params |-> carry[r].params, opt_states |-> carry[r].opt_states,
                key |-> carry[r].key]]
    /\ epochs_done' = 0
    /\ pc' = "update_epoch"
    /\ UNCHANGED <<user_config, config, envs_made, host_vars, carry, updates_done,
                   traj_batch, rollout_log, minibatches, train_state, mb_index,
                   permutation, loss_in, key_log>>

-----------------------------------------------------------------------------
(* jax.random.permutation(shuffle_key, n): some permutation of n indices.  *)
(* All of them up to MaxFullPerm indices; beyond, the rotations and the    *)
(* reversal.                                                               *)
random_permutation(n) ==
    IF n <= MaxFullPerm
    THEN {p \in [1..n -> 1..n] : \A i, j \in 1..n : p[i] = p[j] => i = j}
    ELSE {[j \in 1..n |-> ((j - 1 + k) % n) + 1] : k \in 0..(n - 1)}
         \cup {[j \in 1..n |-> n + 1 - j]}

(* _update_epoch, rec_mappo.py 300-321, on one array of the batch. *)
shuffle(x, perm, cfg) ==
    swapaxes(
        reshape3(
            take(reshape(x, cfg.recurrent_chunk_size, NumChunkColumns(cfg)), perm),
            cfg.num_minibatches))

(* Variant of shuffle_batch: the advantages keep their order. *)
shuffle_batch_independent(traj, adv, tgt, perm, cfg) ==
    [traj |-> shuffle(traj, perm, cfg),
     advantages |-> shuffle(adv, [j \in 1..Len(perm) |-> j], cfg),
     targets |-> shuffle(tgt, perm, cfg)]

(* 299, 303-321: tree.map applies every stage to the three arrays of batch. *)
shuffle_batch(traj, adv, tgt, perm, cfg) ==
    [traj |-> shuffle(traj, perm, cfg),
     advantages |-> shuffle(adv, perm, cfg),
     targets |-> shuffle(tgt, perm, cfg)]

(* Variant of EpochKeys: the key of the epoch scan is not advanced. *)
EpochKeys_stale(key) == <<key, split(key, 3)[2], split(key, 3)[3]>>

(* 296: key, shuffle_key, entropy_key = jax.random.split(key, 3). *)
EpochKeys(key) == split(key, 3)

(* Variant of MinibatchScanInit: the optimiser states start afresh. *)
MinibatchScanInit_fresh(us, entropy_key) ==
    [params |-> us.params, opt_states |-> OptStates(0, 0), key |-> entropy_key]

(* 324-326: the initial carry of the minibatch scan. *)
MinibatchScanInit(us, entropy_key) ==
    [params |-> us.params, opt_states |-> us.opt_states, key |-> entropy_key]

UpdateEpoch ==
    /\ pc = "update_epoch"
    /\ epochs_done < PpoEpochs
    /\ \E draw \in [{EpochKeys(update_state[r].key)[2] : r \in Replicas}
                       -> random_permutation(NumChunkColumns(config))] :
          LET ks(r) == EpochKeys(update_state[r].key)
          IN /\ update_state' =
                    [r \in Replicas |-> [update_state[r] EXCEPT !.key = ks(r)[1]]]
             /\ permutation' = [r \in Replicas |-> draw[ks(r)[2]]]
             /\ minibatches' =
                    [r \in Replicas |->
                        shuffle_batch(traj_batch[r], advantages[r], targets[r],
                                      draw[ks(r)[2]], config)]
             /\ train_state' =
                    [r \in Replicas |-> MinibatchScanInit(update_state[r], ks(r)[3])]
             /\ key_log' =
                    [r \in Replicas |->
                        KeyLog(Append(key_log[r].split, update_state[r].key),
                               Append(key_log[r].consumed, KeyUse("shuffle", ks(r)[2])))]
    /\ mb_index' = 0
    /\ pc' = "update_minibatch"
    /\ UNCHANGED <<user_config, config, envs_made, host_vars, carry, updates_done,
                   step_vars, epochs_done, loss_in>>

-----------------------------------------------------------------------------
(* _update_minibatch, rec_mappo.py 171-293.  A minibatch is an array       *)
(* (chunk position, chunk column); the losses stand in for the clipped     *)
(* surrogate and the clipped value loss, their gradient for                *)
(* jax.value_and_grad.                                                     *)
Sum2(F, rows, cols) ==
    SumSeq([i \in 1..(rows * cols) |-> F[((i - 1) \div cols) + 1][((i - 1) % cols) + 1]])

(* Variant of first_step: the snapshot of the last position. *)
last_step(x) == x[Len(x)]

(* 186, 220: hidden_state[0], the leading index of the stored snapshots. *)
first_step(x) == x[1]

_actor_loss_fn(actor_params, traj_mb, gae, key) ==
    LET C == Len(traj_mb)
        B == Len(traj_mb[1])
        h0 == first_step([c \in 1..C |->
                             [b \in 1..B |-> traj_mb[c][b].hstates.policy_hidden_state]])
        outs == Strict([b \in 1..B |->
                    actor_apply_fn(actor_params, h0[b],
                                   [c \in 1..C |-> traj_mb[c][b].obs],
                                   [c \in 1..C |-> traj_mb[c][b].done])])
        out(b) == outs[b]
        term(c, b) == (log_prob(out(b).policy[c], traj_mb[c][b].action)
                       - traj_mb[c][b].log_prob) * gae[c][b]
                      + entropy(out(b).policy[c], key)
    IN [grads |-> <<(Sum2([c \in 1..C |-> [b \in 1..B |-> term(c, b)]], C, B) + actor_params) % GradMod, 1>>,
        hstate |-> h0]

_critic_loss_fn(critic_params, traj_mb, tgt) ==
    LET C == Len(traj_mb)
        B == Len(traj_mb[1])
        h0 == first_step([c \in 1..C |->
                             [b \in 1..B |-> traj_mb[c][b].hstates.critic_hidden_state]])
        outs == Strict([b \in 1..B |->
                    critic_apply_fn(critic_params, h0[b],
                                   [c \in 1..C |-> traj_mb[c][b].obs],
                                   [c \in 1..C |-> traj_mb[c][b].done])])
        out(b) == outs[b]
        term(c, b) == out(b).value[c] + traj_mb[c][b].value + tgt[c][b]
    IN [grads |-> <<(Sum2([c \in 1..C |-> [b \in 1..B |-> term(c, b)]], C, B) + critic_params) % GradMod, 1>>,
        hstate |-> h0]

(* jax.lax.pmean over a named axis of the replica grid. *)
pmean(x, axis_name) ==
    Strict([r \in Replicas |->
        IF axis_name = "batch"
        THEN RatMean([b \in BatchSlots |-> x[<<r[1], b>>]])
        ELSE RatMean([d \in Devices |-> x[<<d, r[2]>>]])])

(* Variant of sync_grads: the mean over the batch axis is left out. *)
sync_grads_device_only(grads) == pmean(grads, "device")

(* Variant of sync_grads: the mean over the device axis is left out. *)
sync_grads_batch_only(grads) == pmean(grads, "batch")

(* 250-266: mean over the batch axis, then over the device axis. *)
sync_grads(grads) == pmean(pmean(grads, "batch"), "device")

_update_minibatch(ts, batch) ==
    LET ks(r) == split(ts[r].key, 2)
        entropy_key(r) == ks(r)[2]
        actors == Strict([r \in Replicas |->
                      _actor_loss_fn(ts[r].params.actor_params, batch[r].traj,
                                     batch[r].advantages, entropy_key(r))])
        critics == Strict([r \in Replicas |->
                       _critic_loss_fn(ts[r].params.critic_params, batch[r].traj,
                                       batch[r].targets)])
        actor(r) == actors[r]
        critic(r) == critics[r]
        actor_grads == sync_grads([r \in Replicas |-> actor(r).grads])
        critic_grads == sync_grads([r \in Replicas |-> critic(r).grads])
        actor_upds == Strict([r \in Replicas |->
                          update_fn(actor_grads[r], ts[r].opt_states.actor_opt_state)])
        critic_upds == Strict([r \in Replicas |->
                           update_fn(critic_grads[r], ts[r].opt_states.critic_opt_state)])
        actor_upd(r) == actor_upds[r]
        critic_upd(r) == critic_upds[r]
    IN [train_state |->
            [r \in Replicas |->
                [params |-> Params(apply_updates(ts[r].params.actor_params,
                                                 actor_upd(r).updates),
                                   apply_updates(ts[r].params.critic_params,
                                                 critic_upd(r).updates)),
                 opt_states |-> OptStates(actor_upd(r).opt_state, critic_upd(r).opt_state),
                 key |-> entropy_key(r)]],
        loss_in |->
            [r \in Replicas |->
                [policy_hidden_state |-> actor(r).hstate,
                 critic_hidden_state |-> critic(r).hstate,
                 entropy_key |-> entropy_key(r),
                 split_key |-> ts[r].key,
                 params |-> ts[r].params,
                 opt_states |-> ts[r].opt_states,
                 traj_idx |-> [c \in 1..Len(batch[r].traj) |->
                                  [b \in 1..Len(batch[r].traj[c]) |->
                                      batch[r].traj[c][b].idx]],
                 actor_grads |-> actor(r).grads,
                 critic_grads |-> critic(r).grads,
                 applied_actor_grads |-> actor_grads[r],
                 applied_critic_grads |-> critic_grads[r]]]]

(* One iteration of the minibatch scan (324-326) on every replica. *)
UpdateMinibatch ==
    /\ pc = "update_minibatch"
    /\ mb_index < config.num_minibatches
    /\ LET k == mb_index + 1
           out == _update_minibatch(
                      train_state,
                      [r \in Replicas |->
                          [traj |-> minibatches[r].traj[k],
                           advantages |-> minibatches[r].advantages[k],
                           targets |-> minibatches[r].targets[k]]])
       IN /\ train_state' = out.train_state
          /\ loss_in' = out.loss_in
          /\ key_log' =
                 [r \in Replicas |->
                     KeyLog(Append(key_log[r].split, out.loss_in[r].split_key),
                            Append(key_log[r].consumed,
                                   KeyUse("entropy", out.loss_in[r].entropy_key)))]
          /\ mb_index' = k
    /\ UNCHANGED <<user_config, config, pc, envs_made, host_vars, carry, updates_done,
                   step_vars, update_state, epochs_done, minibatches, permutation>>

(* 324-336: the minibatch scan has returned; the epoch's update_state.     *)
(* The minibatches and the permutation are locals of the epoch.            *)
UpdateEpochEnd ==
    /\ pc = "update_minibatch"
    /\ mb_index = config.num_minibatches
    /\ update_state' =
           [r \in Replicas |->
               [params |-> train_state[r].params,
                opt_states |-> train_state[r].opt_states,
                key |-> update_state[r].key]]
    /\ epochs_done' = epochs_done + 1
    /\ minibatches' = Unset
    /\ permutation' = Unset
    /\ loss_in' = Unset
    /\ pc' = IF epochs_done + 1 = PpoEpochs THEN "update_step_end" ELSE "update_epoch"
    /\ UNCHANGED <<user_config, config, envs_made, host_vars, carry, updates_done,
                   step_vars, train_state, mb_index, key_log>>

(* 352-362: the learner state returned by _update_step; 385-387: the scan  *)
(* over update steps goes on with it.                                      *)
(* Variant of _update_step_result: the hidden states start afresh. *)
_update_step_result_reset(ls, us) ==
    RNNLearnerState(us.params, us.opt_states, us.key, ls.env_state, ls.timestep,
                    ls.dones,
                    HiddenStates([e \in 1..Len(ls.env_state) |-> initialize_carry],
                                 [e \in 1..Len(ls.env_state) |-> initialize_carry]))

(* 352-361: params, optimiser states and key of the epoch scan, the rest   *)
(* from the learner state that left the rollout.                           *)
_update_step_result(ls, us) ==
    RNNLearnerState(us.params, us.opt_states, us.key, ls.env_state, ls.timestep,
                    ls.dones, ls.hstates)

UpdateStepEnd ==
    /\ pc = "update_step_end"
    /\ carry' = [r \in Replicas |-> _update_step_result(carry[r], update_state[r])]
    /\ updates_done' = updates_done + 1
    /\ IF updates_done + 1 < NumUpdatesPerEval
       THEN /\ pc' = "env_step"
            /\ traj_batch' = [r \in Replicas |-> <<>>]
            /\ rollout_log' = [r \in Replicas |-> <<>>]
       ELSE /\ pc' = "learn_return"
            /\ UNCHANGED <<traj_batch, rollout_log>>
    /\ UNCHANGED <<user_config, config, envs_made, host_vars, last_val, advantages,
                   targets, epoch_vars, key_log>>

-----------------------------------------------------------------------------
(* Host loop of run_experiment, rec_mappo.py 613-654. *)
unreplicate_batch_dim(x) == [d \in Devices |-> x[<<d, 1>>]]
unreplicate_n_dims(x) == x[<<1, 1>>]

(* 616-617: learn has returned. *)
LearnReturn ==
    /\ pc = "learn_return"
    /\ learner_output' = carry
    /\ pc' = "evaluate"
    /\ UNCHANGED <<user_config, config, envs_made, learner_state, eval_step, evaluated,
                   checkpointed, carry, updates_done, step_vars, epoch_vars, key_log>>

(* 632-637: the params handed to the evaluator. *)
Evaluate ==
    /\ pc = "evaluate"
    /\ evaluated' =
           Append(evaluated,
                  unreplicate_batch_dim(
                      [r \in Replicas |-> learner_state[r].params.actor_params]))
    /\ pc' = "checkpoint"
    /\ UNCHANGED <<user_config, config, envs_made, learner_state, learner_output,
                   eval_step, checkpointed, carry, updates_done, step_vars, epoch_vars,
                   key_log>>

(* 641-654: checkpoint of learner_output, then the next iteration. *)
Checkpoint ==
    /\ pc = "checkpoint"
    /\ checkpointed' = Append(checkpointed, unreplicate_n_dims(learner_output).params)
    /\ learner_state' = learner_output
    /\ eval_step' = eval_step + 1
    /\ pc' = IF eval_step + 1 < NumEvaluation THEN "learn" ELSE "done"
    /\ UNCHANGED <<user_config, config, envs_made, learner_output, evaluated, carry,
                   updates_done, step_vars, epoch_vars, key_log>>

Next ==
    \/ CheckConfig
    \/ MakeEnv
    \/ LearnerSetup
    \/ Learn
    \/ EnvStep
    \/ CalculateGAE
    \/ UpdateEpoch
    \/ UpdateMinibatch
    \/ UpdateEpochEnd
    \/ UpdateStepEnd
    \/ LearnReturn
    \/ Evaluate
    \/ Checkpoint

Spec == Init /\ [][Next]_vars

-----------------------------------------------------------------------------
(* Properties.                                                             *)

Shuffled == minibatches # Unset
RolloutLength == config.rollout_length
ChunkSize == config.recurrent_chunk_size
Positions(r) ==
    {<<m, c, b>> : m \in 1..Len(minibatches[r].traj),
                   c \in 1..ChunkSize,
                   b \in 1..Len(minibatches[r].traj[1][1])}
IdxAt(r, m, c, b) == minibatches[r].traj[m][c][b].idx
Identity(n) == [j \in 1..n |-> j]

(* C1: every recurrent chunk of every minibatch holds the transitions of   *)
(* one environment instance at consecutive rollout time steps, in          *)
(* increasing time order.                                                  *)
C1_ChunksContiguous ==
    Shuffled =>
        \A r \in Replicas : \A p \in Positions(r) :
            p[2] < ChunkSize =>
                LET here == IdxAt(r, p[1], p[2], p[3])
                    next == IdxAt(r, p[1], p[2] + 1, p[3])
                IN next[2] = here[2] /\ next[1] = here[1] + 1

(* C3: when num_envs is not divisible by num_minibatches, chunk size set   *)
(* or not, run_experiment stops with a configuration error before the      *)
(* environments are created and before any training computation.           *)
C3_EnvCountRejected ==
    user_config.num_envs % user_config.num_minibatches # 0 =>
        /\ pc \in {"run_experiment", "AssertionError"}
        /\ ~envs_made
        /\ learner_state = Unset

(* C4: a chunk size that is set and does not divide rollout_length stops   *)
(* run_experiment with a configuration error before environment creation,  *)
(* learner setup, rollout or update; nothing is ever reshaped.             *)
C4_ChunkSizeRejected ==
    (/\ user_config.recurrent_chunk_size # None
     /\ user_config.rollout_length % user_config.recurrent_chunk_size # 0) =>
        /\ pc \in {"run_experiment", "AssertionError"}
        /\ ~envs_made
        /\ learner_state = Unset
        /\ carry = Unset
        /\ traj_batch = Unset
        /\ minibatches = Unset

C4_Witness ==
    /\ pc = "AssertionError"
    /\ user_config.recurrent_chunk_size # None
    /\ user_config.rollout_length % user_config.recurrent_chunk_size # 0

(* C5: at every position of every minibatch the advantage and the target   *)
(* are those computed for the (time step, environment) of the transition   *)
(* at that position.                                                       *)
C5_JointShuffle ==
    Shuffled =>
        \A r \in Replicas : \A p \in Positions(r) :
            LET id == IdxAt(r, p[1], p[2], p[3])
            IN /\ minibatches[r].advantages[p[1]][p[2]][p[3]] = advantages[r][id[1]][id[2]]
               /\ minibatches[r].targets[p[1]][p[2]][p[3]] = targets[r][id[1]][id[2]]

C5_Witness ==
    /\ Shuffled
    /\ pc = "update_minibatch"
    /\ \E r \in Replicas :
          /\ permutation[r] # Identity(Len(permutation[r]))
          /\ \E t1, t2 \in 1..RolloutLength : \E e1, e2 \in 1..config.num_envs :
                /\ advantages[r][t1][e1] # advantages[r][t2][e2]
                /\ targets[r][t1][e1] # targets[r][t2][e2]

(* C6: the reshape-shuffle-split of an epoch is a bijection on the         *)
(* rollout: every (time step, environment) entry sits at exactly one       *)
(* position of exactly one minibatch, and undoing the stages with the      *)
(* inverse permutation gives back the trajectory in its original order.    *)
InversePermutation(perm) ==
    [j \in 1..Len(perm) |-> CHOOSE i \in 1..Len(perm) : perm[i] = j]
Unsplit(x) ==
    LET M == Len(x)
        C == Len(x[1])
        B == Len(x[1][1])
    IN [c \in 1..C |-> [j \in 1..(M * B) |-> x[((j - 1) \div B) + 1][c][((j - 1) % B) + 1]]]
Unshuffle(x, perm, cfg) ==
    reshape(take(Unsplit(x), InversePermutation(perm)), cfg.rollout_length, cfg.num_envs)

C6_ShuffleBijection ==
    Shuffled =>
        \A r \in Replicas :
            /\ \A t \in 1..RolloutLength : \A e \in 1..config.num_envs :
                  Cardinality({p \in Positions(r) : IdxAt(r, p[1], p[2], p[3]) = <<t, e>>}) = 1
            /\ Unshuffle(minibatches[r].traj, permutation[r], config) = traj_batch[r]

C6_Witness ==
    /\ Shuffled
    /\ pc = "update_minibatch"
    /\ RolloutLength \div ChunkSize > 1
    /\ config.num_minibatches > 1
    /\ \E r \in Replicas : permutation[r] # Identity(Len(permutation[r]))

(* C2: from the learner state built by learner_setup on, after every       *)
(* minibatch update and any number of update steps, the actor params, the  *)
(* critic params and both optimiser states are the same on every replica.  *)
SameOnReplicas(f) ==
    \A r1, r2 \in Replicas :
        /\ f[r1].params = f[r2].params
        /\ f[r1].opt_states = f[r2].opt_states

C2_ReplicasAgree ==
    /\ learner_state # Unset => SameOnReplicas(learner_state)
    /\ learner_output # Unset => SameOnReplicas(learner_output)
    /\ carry # Unset => SameOnReplicas(carry)
    /\ update_state # Unset => SameOnReplicas(update_state)
    /\ train_state # Unset => SameOnReplicas(train_state)

C2_Witness ==
    /\ pc = "update_minibatch"
    /\ mb_index >= 1
    /\ eval_step >= 1
    /\ \E r1, r2 \in Replicas :
          /\ r1[1] # r2[1]
          /\ carry[r1].env_state # carry[r2].env_state
          /\ loss_in[r1].actor_grads # loss_in[r2].actor_grads
          /\ loss_in[r1].critic_grads # loss_in[r2].critic_grads
    /\ \E r1, r2 \in Replicas :
          /\ r1[1] = r2[1]
          /\ loss_in[r1].actor_grads # loss_in[r2].actor_grads

(* C7: the hidden state handed to the actor and to the critic when a chunk *)
(* is re-evaluated is the snapshot stored in the transition at the chunk's *)
(* first position, which is the hidden state that was current in the       *)
(* rollout right before the (time step, environment) of that transition.   *)
C7_ChunkStartHidden ==
    (pc = "update_minibatch" /\ mb_index >= 1) =>
        \A r \in Replicas : \A b \in 1..Len(minibatches[r].traj[mb_index][1]) :
            LET first == minibatches[r].traj[mb_index][1][b]
                was == rollout_log[r][first.idx[1]].before.hstates
            IN /\ loss_in[r].policy_hidden_state[b] = first.hstates.policy_hidden_state
               /\ loss_in[r].critic_hidden_state[b] = first.hstates.critic_hidden_state
               /\ loss_in[r].policy_hidden_state[b] = was.policy_hidden_state[first.idx[2]]
               /\ loss_in[r].critic_hidden_state[b] = was.critic_hidden_state[first.idx[2]]

C7_Witness ==
    /\ pc = "update_minibatch"
    /\ mb_index >= 1
    /\ ChunkSize >= 2
    /\ \E r \in Replicas : \E b1, b2 \in 1..Len(minibatches[r].traj[mb_index][1]) :
          LET mb == minibatches[r].traj[mb_index]
          IN /\ mb[1][b1].hstates.policy_hidden_state # mb[2][b1].hstates.policy_hidden_state
             /\ mb[1][b1].hstates.critic_hidden_state # mb[ChunkSize][b1].hstates.critic_hidden_state
             /\ mb[1][b1].hstates.policy_hidden_state # mb[1][b2].hstates.policy_hidden_state

(* C8: the rollout steps every environment rollout_length times and        *)
(* records as many transitions; transition t holds the hidden states, done *)
(* flags and observation current before step t, those of transition t+1   *)
(* are the ones step t produced, and the learner state that leaves the     *)
(* rollout holds the ones the last step produced.                          *)
RolloutOver == pc \in {"calculate_gae", "update_epoch", "update_minibatch", "update_step_end"}

C8_Rollout ==
    traj_batch # Unset =>
        \A r \in Replicas :
            LET n == Len(traj_batch[r])
                log == rollout_log[r]
            IN /\ Len(log) = n
               /\ n <= RolloutLength
               /\ RolloutOver => n = RolloutLength
               /\ \A t \in 1..n : \A e \in 1..config.num_envs :
                     LET tr == traj_batch[r][t][e]
                     IN /\ tr.hstates.policy_hidden_state
                              = log[t].before.hstates.policy_hidden_state[e]
                        /\ tr.hstates.critic_hidden_state
                              = log[t].before.hstates.critic_hidden_state[e]
                        /\ tr.done = log[t].before.dones[e]
                        /\ tr.obs = log[t].before.obs[e]
               /\ \A t \in 1..(n - 1) : log[t + 1].before = log[t].after
               /\ RolloutOver =>
                     /\ carry[r].hstates = log[n].after.hstates
                     /\ carry[r].dones = log[n].after.dones
                     /\ \A e \in 1..config.num_envs :
                           carry[r].timestep[e].observation = log[n].after.obs[e]

C8_Witness ==
    /\ pc = "calculate_gae"
    /\ RolloutLength >= 2
    /\ \E r \in Replicas : \E t \in 1..(RolloutLength - 1) : \E e \in 1..config.num_envs :
          LET log == rollout_log[r]
          IN /\ log[t].before.hstates # log[t].after.hstates
             /\ log[t].before.dones[e] # log[t].after.dones[e]
             /\ log[t].before.obs[e] # log[t].after.obs[e]
             /\ traj_batch[r][t + 1][e].done = log[t].after.dones[e]

(* C9: the advantages and targets of an update step are the backward       *)
(* recursion residual_t = reward_t + gamma*(1-done_t)*next_value_t -       *)
(* value_t, advantage_t = residual_t + gamma*lambda*(1-done_t)*            *)
(* advantage_{t+1}, target_t = advantage_t + value_t, where next_value_t   *)
(* is the bootstrap value for the last step and the stored value of        *)
(* transition t+1 otherwise, and done_t is the flag that step t produced.  *)
AdvantagesReady == pc \in {"update_epoch", "update_minibatch", "update_step_end"}

RECURSIVE RefAdvantage(_, _, _)
RefAdvantage(r, e, t) ==
    LET tr == traj_batch[r][t][e]
        last == t = RolloutLength
        done == B2I(rollout_log[r][t].after.dones[e])
        next_value == IF last THEN last_val[r][e] ELSE traj_batch[r][t + 1][e].value
        residual == tr.reward + Gamma * (1 - done) * next_value - tr.value
    IN residual + Gamma * GaeLambda * (1 - done)
                  * (IF last THEN 0 ELSE RefAdvantage(r, e, t + 1))

C9_GaeRecursion ==
    AdvantagesReady =>
        \A r \in Replicas : \A t \in 1..RolloutLength : \A e \in 1..config.num_envs :
            /\ advantages[r][t][e] = RefAdvantage(r, e, t)
            /\ targets[r][t][e] = RefAdvantage(r, e, t) + traj_batch[r][t][e].value

C9_Witness ==
    /\ AdvantagesReady
    /\ RolloutLength >= 3
    /\ \E r \in Replicas : \E e \in 1..config.num_envs :
          /\ carry[r].dones[e]
          /\ last_val[r][e] # 0
          /\ \E t \in 1..(RolloutLength - 1) :
                /\ ~rollout_log[r][t].after.dones[e]
                /\ advantages[r][t][e] # advantages[r][t + 1][e]
    /\ \E r \in Replicas : \E e \in 1..config.num_envs :
          /\ ~carry[r].dones[e]
          /\ last_val[r][e] # 0

(* C10: done-masking.  Two windows that agree up to and including step t   *)
(* and differ afterwards, in the values and rewards of later steps or in   *)
(* the bootstrap value, yield the same advantage at t whenever the done    *)
(* flag of step t is set.                                                  *)
AltValues == 0..(ValueMod - 1)
AltRewards == 1..NumActions
AltTraj(traj, e, t, f) ==
    [u \in 1..Len(traj) |->
        [x \in 1..Len(traj[u]) |->
            IF x = e /\ u > t
            THEN [traj[u][x] EXCEPT !.value = f[u][1], !.reward = f[u][2]]
            ELSE traj[u][x]]]

IndependentOfLater(r, e, t) ==
    \A f \in [(t + 1)..RolloutLength -> AltValues \X AltRewards] : \A v \in AltValues :
        advantage_estimates(AltTraj(traj_batch[r], e, t, f),
                            [last_val[r] EXCEPT ![e] = v],
                            carry[r]).advantages[t][e]
            = advantages[r][t][e]

JustEstimated == pc = "update_epoch" /\ epochs_done = 0

(* The flag step t produced; the window stores it as the done field of     *)
(* transition t+1, and the flag of the last step is the final done flag.   *)
DoneAfter(r, e, t) == rollout_log[r][t].after.dones[e]

(* C10 as stated: done is the done field of transition t of the window. *)
C10_StoredDoneMasks ==
    JustEstimated =>
        \A r \in Replicas : \A t \in 1..RolloutLength : \A e \in 1..config.num_envs :
            traj_batch[r][t][e].done => IndependentOfLater(r, e, t)

(* C10 amended: done is the flag produced by step t. *)
C10_EpisodeEndMasks ==
    JustEstimated =>
        \A r \in Replicas : \A t \in 1..RolloutLength : \A e \in 1..config.num_envs :
            DoneAfter(r, e, t) => IndependentOfLater(r, e, t)

C10_Witness ==
    /\ JustEstimated
    /\ RolloutLength >= 3
    /\ \E r \in Replicas : \E e \in 1..config.num_envs :
          /\ \E t \in 1..(RolloutLength - 1) :
                /\ DoneAfter(r, e, t)
                /\ ~traj_batch[r][t][e].done
                /\ ~DoneAfter(r, e, t + 1)
          /\ \E t \in 1..RolloutLength :
                /\ ~DoneAfter(r, e, t)
                /\ ~IndependentOfLater(r, e, t)
    /\ \E r \in Replicas : \E e \in 1..config.num_envs :
          DoneAfter(r, e, RolloutLength)

(* C11: within one update step the rollout comes first, then the advantage *)
(* computation, then exactly ppo_epochs epochs of num_minibatches          *)
(* minibatches each, taken in index order; every optimiser update starts   *)
(* from the params and optimiser states the preceding one left, so each    *)
(* network has received ppo_epochs * num_minibatches updates when the step *)
(* ends and none before its rollout and advantages are complete.           *)
InLearn ==
    pc \in {"env_step", "calculate_gae", "update_epoch", "update_minibatch",
            "update_step_end", "learn_return"}
StepsDone == eval_step * NumUpdatesPerEval + updates_done
UpdatesPerStep == PpoEpochs * config.num_minibatches
OptCount(os) == <<os.actor_opt_state, os.critic_opt_state>>
Both(n) == <<n, n>>
IdxOf(mb) == [c \in 1..Len(mb) |-> [b \in 1..Len(mb[c]) |-> mb[c][b].idx]]

PhaseOrder ==
    InLearn =>
        \A r \in Replicas :
            LET base == StepsDone * UpdatesPerStep
                M == config.num_minibatches
            IN /\ OptCount(carry[r].opt_states) = Both(base)
               /\ pc = "env_step" => Len(traj_batch[r]) < RolloutLength
               /\ pc \in {"calculate_gae", "update_epoch", "update_minibatch",
                          "update_step_end"} => Len(traj_batch[r]) = RolloutLength
               /\ pc \in {"update_epoch", "update_minibatch", "update_step_end"} =>
                     /\ advantages[r] = advantage_estimates(traj_batch[r], last_val[r],
                                                            carry[r]).advantages
                     /\ targets[r] = advantage_estimates(traj_batch[r], last_val[r],
                                                         carry[r]).targets
               /\ pc = "update_epoch" =>
                     /\ epochs_done < PpoEpochs
                     /\ OptCount(update_state[r].opt_states) = Both(base + epochs_done * M)
               /\ pc = "update_minibatch" =>
                     /\ epochs_done < PpoEpochs
                     /\ mb_index <= M
                     /\ OptCount(train_state[r].opt_states)
                            = Both(base + epochs_done * M + mb_index)
                     /\ mb_index >= 1 =>
                           /\ loss_in[r].traj_idx = IdxOf(minibatches[r].traj[mb_index])
                           /\ OptCount(loss_in[r].opt_states)
                                  = Both(base + epochs_done * M + mb_index - 1)
               /\ pc = "update_step_end" =>
                     /\ epochs_done = PpoEpochs
                     /\ OptCount(update_state[r].opt_states) = Both(base + UpdatesPerStep)

SameNetworks(a, b) == a.params = b.params /\ a.opt_states = b.opt_states

UpdateChain ==
    \A r \in Replicas :
        /\ (pc = "calculate_gae" /\ pc' = "update_epoch") =>
               SameNetworks(update_state'[r], carry[r])
        /\ (pc = "update_epoch" /\ pc' = "update_minibatch") =>
               SameNetworks(train_state'[r], update_state[r])
        /\ (pc = "update_minibatch" /\ mb_index' = mb_index + 1) =>
               SameNetworks(loss_in'[r], train_state[r])
        /\ (pc = "update_minibatch" /\ pc' # "update_minibatch") =>
               SameNetworks(update_state'[r], train_state[r])
        /\ (pc = "update_step_end" /\ pc' # "update_step_end") =>
               SameNetworks(carry'[r], update_state[r])
        /\ (pc \in {"env_step", "calculate_gae"} /\ pc' \in {"env_step", "calculate_gae"}) =>
               SameNetworks(carry'[r], carry[r])

C11_PhasesInOrder == [] PhaseOrder /\ [][UpdateChain]_vars

C11_Witness ==
    /\ pc = "update_step_end"
    /\ StepsDone >= 1
    /\ config.num_minibatches >= 2
    /\ \E r \in Replicas :
          /\ update_state[r].params.actor_params # carry[r].params.actor_params
          /\ update_state[r].params.critic_params # carry[r].params.critic_params

(* C12: the gradient a replica applies for minibatch k is the mean over    *)
(* the batch axis and then over the device axis of the local gradients     *)
(* that all replicas computed for their minibatch k, which is the mean of  *)
(* all local gradients; the params and optimiser states after minibatch k  *)
(* are the update by that mean of those before it.                         *)
AllReplicas ==
    [i \in 1..(NumDevices * UpdateBatchSize) |->
        <<((i - 1) \div UpdateBatchSize) + 1, ((i - 1) % UpdateBatchSize) + 1>>]
MeanOfAll(local) == RatMean([i \in DOMAIN AllReplicas |-> local[AllReplicas[i]]])
MeanBatchThenDevice(local) ==
    RatMean([d \in Devices |-> RatMean([b \in BatchSlots |-> local[<<d, b>>]])])
LocalActorGrads == [r \in Replicas |-> loss_in[r].actor_grads]
LocalCriticGrads == [r \in Replicas |-> loss_in[r].critic_grads]
MinibatchDone == pc = "update_minibatch" /\ mb_index >= 1

C12_AllReduce ==
    MinibatchDone =>
        \A r \in Replicas :
            LET actor_upd == update_fn(MeanOfAll(LocalActorGrads),
                                       loss_in[r].opt_states.actor_opt_state)
                critic_upd == update_fn(MeanOfAll(LocalCriticGrads),
                                        loss_in[r].opt_states.critic_opt_state)
            IN /\ loss_in[r].traj_idx = IdxOf(minibatches[r].traj[mb_index])
               /\ loss_in[r].applied_actor_grads = MeanBatchThenDevice(LocalActorGrads)
               /\ loss_in[r].applied_critic_grads = MeanBatchThenDevice(LocalCriticGrads)
               /\ RatEq(loss_in[r].applied_actor_grads, MeanOfAll(LocalActorGrads))
               /\ RatEq(loss_in[r].applied_critic_grads, MeanOfAll(LocalCriticGrads))
               /\ train_state[r].params.actor_params
                      = apply_updates(loss_in[r].params.actor_params, actor_upd.updates)
               /\ train_state[r].params.critic_params
                      = apply_updates(loss_in[r].params.critic_params, critic_upd.updates)
               /\ train_state[r].opt_states
                      = OptStates(actor_upd.opt_state, critic_upd.opt_state)

C12_Witness ==
    /\ MinibatchDone
    /\ \E d \in Devices : \E b1, b2 \in BatchSlots :
          /\ LocalActorGrads[<<d, b1>>] # LocalActorGrads[<<d, b2>>]
          /\ LocalCriticGrads[<<d, b1>>] # LocalCriticGrads[<<d, b2>>]
    /\ \E d1, d2 \in Devices :
          /\ ~RatEq(RatMean([b \in BatchSlots |-> LocalActorGrads[<<d1, b>>]]),
                    RatMean([b \in BatchSlots |-> LocalActorGrads[<<d2, b>>]]))
          /\ ~RatEq(RatMean([b \in BatchSlots |-> LocalCriticGrads[<<d1, b>>]]),
                    RatMean([b \in BatchSlots |-> LocalCriticGrads[<<d2, b>>]]))
    /\ \E r \in Replicas :
          /\ GradInt(MeanOfAll(LocalActorGrads)) # GradInt(LocalActorGrads[r])
          /\ GradInt(MeanOfAll(LocalCriticGrads)) # GradInt(LocalCriticGrads[r])

(* C13: the epoch and minibatch scans change params, optimiser states and  *)
(* key only.  The trajectory, the advantages and the targets stay as       *)
(* computed once after the rollout, from the critic params of before the   *)
(* updates, and every epoch shuffles those same values; the learner state  *)
(* returned by the update step holds the environment state, timestep,      *)
(* done flags and hidden states that the last rollout step left.           *)
SameEnvironment(a, b) ==
    /\ a.env_state = b.env_state
    /\ a.timestep = b.timestep
    /\ a.dones = b.dones
    /\ a.hstates = b.hstates

EstimatesKept ==
    /\ AdvantagesReady =>
          \A r \in Replicas :
              LET est == advantage_estimates(traj_batch[r], BootstrapValue(carry[r]),
                                             carry[r])
              IN /\ advantages[r] = est.advantages
                 /\ targets[r] = est.targets
    /\ Shuffled =>
          \A r \in Replicas :
              /\ Unshuffle(minibatches[r].traj, permutation[r], config) = traj_batch[r]
              /\ Unshuffle(minibatches[r].advantages, permutation[r], config) = advantages[r]
              /\ Unshuffle(minibatches[r].targets, permutation[r], config) = targets[r]
    /\ pc = "learn_return" =>
          \A r \in Replicas :
              LET left == rollout_log[r][RolloutLength].after
              IN /\ carry[r].hstates = left.hstates
                 /\ carry[r].dones = left.dones
                 /\ \A e \in 1..config.num_envs :
                       carry[r].timestep[e].observation = left.obs[e]

LoopsFrame ==
    /\ pc \in {"calculate_gae", "update_epoch", "update_minibatch"} =>
          UNCHANGED <<traj_batch, carry>>
    /\ pc \in {"update_epoch", "update_minibatch"} =>
          UNCHANGED <<advantages, targets, last_val>>
    /\ pc = "update_step_end" =>
          /\ UNCHANGED <<advantages, targets>>
          /\ \A r \in Replicas :
                /\ SameEnvironment(carry'[r], carry[r])
                /\ SameNetworks(carry'[r], update_state[r])
                /\ carry'[r].key = update_state[r].key

C13_LoopsKeepRollout == [] EstimatesKept /\ [][LoopsFrame]_vars

C13_Witness ==
    /\ pc = "learn_return"
    /\ \E r \in Replicas :
          /\ carry[r].params.actor_params # learner_state[r].params.actor_params
          /\ carry[r].params.critic_params # learner_state[r].params.critic_params
          /\ carry[r].key # learner_state[r].key
          /\ carry[r].hstates.policy_hidden_state # learner_state[r].hstates.policy_hidden_state
          /\ carry[r].hstates.critic_hidden_state # learner_state[r].hstates.critic_hidden_state
          /\ carry[r].env_state # learner_state[r].env_state
          /\ \E e \in 1..config.num_envs : carry[r].dones[e]

(* C14: the actor params evaluated in iteration k of the host loop are     *)
(* those the training block of iteration k produced, the ones of the       *)
(* learner state checkpointed in iteration k.                              *)
C14_EvaluatesTrained ==
    /\ pc = "checkpoint" =>
          \A d \in Devices :
              evaluated[Len(evaluated)][d] = learner_output[<<d, 1>>].params.actor_params
    /\ \A k \in 1..Len(checkpointed) : \A d \in Devices :
          evaluated[k][d] = checkpointed[k].actor_params

(* C15: the bootstrap value is the value of one critic call on what the    *)
(* last rollout step left (critic hidden state, observation, done flags)   *)
(* with the critic params of before the updates of the step; the call adds *)
(* no transition and the hidden state it returns is dropped: the hidden    *)
(* states that go on to the next update step are those of the last rollout *)
(* step.                                                                   *)
BootstrapCall(r, e, critic_params) ==
    LET left == rollout_log[r][RolloutLength].after
    IN critic_apply_fn(critic_params, left.hstates.critic_hidden_state[e],
                       <<left.obs[e]>>, <<left.dones[e]>>)

C15_Bootstrap ==
    /\ AdvantagesReady =>
          \A r \in Replicas :
              /\ Len(traj_batch[r]) = RolloutLength
              /\ Len(last_val[r]) = config.num_envs
              /\ updates_done = 0 => carry[r].params = learner_state[r].params
              /\ carry[r].hstates = rollout_log[r][RolloutLength].after.hstates
              /\ \A e \in 1..config.num_envs :
                    last_val[r][e]
                        = BootstrapCall(r, e, carry[r].params.critic_params).value[1]
    /\ pc = "learn_return" =>
          \A r \in Replicas :
              carry[r].hstates = rollout_log[r][RolloutLength].after.hstates

C15_Witness ==
    /\ pc = "update_step_end"
    /\ \E r \in Replicas : \E e \in 1..config.num_envs :
          /\ ~carry[r].dones[e]
          /\ carry[r].hstates.critic_hidden_state[e] # initialize_carry
          /\ update_state[r].params.critic_params # carry[r].params.critic_params
          /\ BootstrapCall(r, e, carry[r].params.critic_params).hidden_state
                 # carry[r].hstates.critic_hidden_state[e]
          /\ BootstrapCall(r, e, update_state[r].params.critic_params).value[1]
                 # last_val[r][e]

(* C16: over any number of update steps of a replica, the keys handed to   *)
(* action sampling (one per rollout step), to the permutation (one per     *)
(* epoch) and to the entropy (one per minibatch) are pairwise distinct.    *)
KeysLogged == key_log # Unset
Consumed(r) == key_log[r].consumed
CountUse(r, use) == Cardinality({i \in DOMAIN Consumed(r) : Consumed(r)[i].use = use})

C16_KeysDistinct ==
    KeysLogged =>
        \A r \in Replicas :
            /\ \A i, j \in DOMAIN Consumed(r) :
                  i # j => Consumed(r)[i].key # Consumed(r)[j].key
            /\ pc = "learn_return" =>
                  /\ CountUse(r, "sample") = StepsDone * RolloutLength
                  /\ CountUse(r, "shuffle") = StepsDone * PpoEpochs
                  /\ CountUse(r, "entropy") = StepsDone * UpdatesPerStep

C16_Witness ==
    /\ pc = "learn_return"
    /\ StepsDone >= 2
    /\ RolloutLength >= 2
    /\ config.num_minibatches >= 2
    /\ \A r \in Replicas : Len(Consumed(r)) >= 2 * (2 + PpoEpochs * 3)

(* C17: no key that a sampling operation has consumed is handed to         *)
(* jax.random.split, and no key is split twice.                            *)
C17_NoSplitAfterUse ==
    KeysLogged =>
        \A r \in Replicas :
            /\ \A i \in DOMAIN Consumed(r) : \A j \in DOMAIN key_log[r].split :
                  Consumed(r)[i].key # key_log[r].split[j]
            /\ \A i, j \in DOMAIN key_log[r].split :
                  i # j => key_log[r].split[i] # key_log[r].split[j]

====
